---------------------------- MODULE Spec2Model ----------------------------
(***************************************************************************)
(* The virtual snake (SNEK) of the pinecone router: the snake table with   *)
(* its ascending and descending pointers, the maintenance tick, the        *)
(* bootstrap-ACK / setup / teardown handlers, the SNEK next-hop selector,  *)
(* the port allocation of Router.Connect and the rendezvous of the pings.   *)
(*                                                                         *)
(* The Go methods on *state are operators on a record s that holds the     *)
(* fields the methods read and write.  An operator returns the SET of      *)
(* states the method can end in: the set has several elements where Go     *)
(* leaves the outcome open (the iteration order of a map, the random path  *)
(* ID of a bootstrap).                                                     *)
(***************************************************************************)
EXTENDS Integers, Sequences, FiniteSets, Bags, TLC

(***************************************************************************)
(* Bounds of the model.                                                    *)
(***************************************************************************)
MaxKey == 5
MaxPathID == 2
MaxSeq == 2
MaxPeers == 2
MaxClockSteps == 1
MaxFrames == 2
MaxFreed == 3
MaxSigs == 2
MaxInFlight == 2
MaxCallers == 3

(***************************************************************************)
(* Program constants.  Time is counted in seconds.                         *)
(***************************************************************************)
PortCount == 255
virtualSnakeNeighExpiryPeriod == 3600
LocalKey == 3
LocalPort == 0
NilPeer == -1
NoKey == 0

Keys == 1..MaxKey
PathIDs == 1..MaxPathID
Seqs == 1..MaxSeq
ClockStep == virtualSnakeNeighExpiryPeriod
LocalCoords == <<>>

VARIABLES
    peers,          \* s._peers: port -> peer, for the ports in use
    parent,         \* s._parent: a port, or NilPeer
    root,           \* s._rootAnnouncement(): root key and sequence
    announcements,  \* s._announcements: port -> signature keys, root first
    now,            \* the wall clock, in seconds
    table,          \* s._table: <<key, pathID>> -> entry
    ascending,      \* s._ascending: Nil or a pointer to an entry
    descending,     \* s._descending: Nil or a pointer to an entry
    frames,         \* how many frames the peers have delivered
    overdue,        \* the expired entries a maintenance tick has left in the table
    held,           \* the bag of the ports Connect returned to the peers now attached
    net,            \* a network of routers: its tree, their snake states, the links
    pings,          \* r.pings and the calls of SNEKPing and TreePing under way
    ev              \* the last operation, its inputs and what it pushed

vars == <<peers, parent, root, announcements, now, table, ascending, descending, frames,
          overdue, held, net, pings, ev>>

(***************************************************************************)
(* Pointers to entries: Nil, or a one-element tuple holding the entry.     *)
(***************************************************************************)
Nil == <<>>
Ptr(e) == <<e>>
Deref(p) == p[1]

Remove(f, k) == [x \in DOMAIN f \ {k} |-> f[x]]
Put(f, k, v) == [x \in DOMAIN f \cup {k} |-> IF x = k THEN v ELSE f[x]]

(***************************************************************************)
(* util.LessThan and util.DHTOrdered on public keys.                       *)
(***************************************************************************)
LessThan(a, b) == a < b

DHTOrdered(a, b, c) ==
    \/ LessThan(a, b) /\ LessThan(b, c)
    \/ LessThan(b, c) /\ LessThan(c, a)
    \/ LessThan(c, a) /\ LessThan(a, b)

(***************************************************************************)
(* Frames.  Only the fields the snake reads are kept; the payload of a     *)
(* bootstrap, bootstrap-ACK or setup is (PathID, RootPublicKey,            *)
(* RootSequence), the payload of a teardown is PathID.  Malformed is a     *)
(* payload that does not unmarshal.                                        *)
(***************************************************************************)
Frame(type, dkey, skey, src, dst, pid, rkey, rseq) ==
    [Type |-> type, DestinationKey |-> dkey, SourceKey |-> skey,
     Source |-> src, Destination |-> dst, PathID |-> pid,
     RootPublicKey |-> rkey, RootSequence |-> rseq, Malformed |-> FALSE]

NoFrame == Frame("None", NoKey, NoKey, <<>>, <<>>, 0, NoKey, 0)

(***************************************************************************)
(* Peers.  A peer is known by its port; port 0 is the local peer, which is *)
(* started and has no protocol queue.  The peers made by Connect have one. *)
(***************************************************************************)
local(p) == p = LocalPort

Started(s, p) == p \in DOMAIN s.peers /\ s.peers[p].started

HasProto(p) == p # NilPeer /\ ~local(p)

\* p.proto.push(f) with the result ignored: the frame is on p's queue.
Push(s, p, f) == [s EXCEPT !.out = Append(@, [to |-> p, frame |-> f])]

(***************************************************************************)
(* virtualSnakeEntry.valid                                                 *)
(***************************************************************************)
valid_expiresLate(e, t) == t - e.LastSeen <= virtualSnakeNeighExpiryPeriod

valid(e, t) == t - e.LastSeen < virtualSnakeNeighExpiryPeriod

(***************************************************************************)
(* _nextHopsSNEK.  best is the pair (bestKey, bestPeer).                   *)
(***************************************************************************)
newCandidate(key, p) == [key |-> key, peer |-> p]

\* newCheckedCandidate with the arguments of util.DHTOrdered out of order.
newCheckedCandidate_orderSwapped(best, destKey, bootstrap, candidate, p) ==
    IF ~bootstrap /\ candidate = destKey /\ best.key # destKey
    THEN newCandidate(candidate, p)
    ELSE IF DHTOrdered(best.key, candidate, destKey)
         THEN newCandidate(candidate, p)
         ELSE best

newCheckedCandidate(best, destKey, bootstrap, candidate, p) ==
    IF ~bootstrap /\ candidate = destKey /\ best.key # destKey
    THEN newCandidate(candidate, p)
    ELSE IF DHTOrdered(destKey, candidate, best.key)
         THEN newCandidate(candidate, p)
         ELSE best

\* for _, hop := range ann.Signatures: a slice, walked in order.
RECURSIVE checkSignatures(_, _, _, _, _)
checkSignatures(best, destKey, bootstrap, sigs, p) ==
    IF sigs = <<>>
    THEN best
    ELSE checkSignatures(newCheckedCandidate(best, destKey, bootstrap, Head(sigs), p),
                         destKey, bootstrap, Tail(sigs), p)

\* The path to the root via the parent, then the parent's ancestors.
parentCandidates(s, destKey, bootstrap) ==
    LET b0 == newCandidate(s.public, LocalPort)
    IN  IF s.parent # NilPeer /\ Started(s, s.parent)
        THEN LET b1 == IF \/ bootstrap /\ b0.key = destKey
                          \/ DHTOrdered(b0.key, destKey, s.root.RootPublicKey)
                       THEN newCandidate(s.root.RootPublicKey, s.parent)
                       ELSE b0
             IN  IF s.parent \in DOMAIN s.announcements
                 THEN checkSignatures(b1, destKey, bootstrap,
                                      s.announcements[s.parent], s.parent)
                 ELSE b1
        ELSE b0

\* for p, ann := range s._announcements: a map, walked in any order.  The
\* result is the set of the pairs the walks over todo can end with.
RECURSIVE peerAncestors(_, _, _, _, _)
peerAncestors(s, destKey, bootstrap, todo, best) ==
    IF todo = {}
    THEN {best}
    ELSE UNION { peerAncestors(s, destKey, bootstrap, todo \ {p},
                     IF Started(s, p)
                     THEN checkSignatures(best, destKey, bootstrap, s.announcements[p], p)
                     ELSE best) : p \in todo }

\* The loop over the direct peers without the test of p.started.
directPeers_anyPeer(s, best) ==
    LET direct == {p \in DOMAIN s.announcements : s.peers[p].public = best.key}
    IN  IF direct = {} THEN {best} ELSE {newCandidate(best.key, p) : p \in direct}

\* for p := range s._announcements: the last started peer whose key is the
\* best key becomes the best peer.
directPeers(s, best) ==
    LET direct == {p \in DOMAIN s.announcements :
                       Started(s, p) /\ s.peers[p].public = best.key}
    IN  IF direct = {} THEN {best} ELSE {newCandidate(best.key, p) : p \in direct}

\* for _, entry := range s._table: a map, walked in any order.
RECURSIVE tableCandidates(_, _, _, _, _)
tableCandidates(s, destKey, bootstrap, todo, best) ==
    IF todo = {}
    THEN {best}
    ELSE UNION { LET entry == s.table[k]
                 IN  tableCandidates(s, destKey, bootstrap, todo \ {k},
                         IF \/ ~Started(s, entry.Source)
                            \/ ~valid(entry, s.now)
                            \/ local(entry.Source)
                         THEN best
                         ELSE newCheckedCandidate(best, destKey, bootstrap,
                                                  entry.PublicKey, entry.Source))
               : k \in todo }

\* The pairs (bestKey, bestPeer) a call can end with.
bestCandidates(s, destKey, bootstrap) ==
    LET afterPeers == peerAncestors(s, destKey, bootstrap, DOMAIN s.announcements,
                                    parentCandidates(s, destKey, bootstrap))
        afterDirect == UNION {directPeers(s, b) : b \in afterPeers}
    IN  UNION {tableCandidates(s, destKey, bootstrap, DOMAIN s.table, b) : b \in afterDirect}

\* The peers a call can return.
nextHopsSNEK(s, rx, bootstrap) ==
    IF ~bootstrap /\ s.public = rx.DestinationKey
    THEN {LocalPort}
    ELSE {b.peer : b \in bestCandidates(s, rx.DestinationKey, bootstrap)}

(***************************************************************************)
(* _bootstrapNow.  rand.Read draws any path ID.                            *)
(***************************************************************************)
\* _bootstrapNow testing asc.Destination.started in place of
\* asc.Source.started.
bootstrapNow_testsDestination(s) ==
    IF s.parent = NilPeer
    THEN {s}
    ELSE IF /\ s.ascending # Nil
            /\ Started(s, Deref(s.ascending).Destination)
            /\ Deref(s.ascending).RootPublicKey = s.root.RootPublicKey
            /\ Deref(s.ascending).RootSequence = s.root.Sequence
    THEN {s}
    ELSE UNION { LET send == Frame("Bootstrap", s.public, NoKey, s.coords, <<>>,
                                   pid, s.root.RootPublicKey, s.root.Sequence)
                 IN  { IF HasProto(p) THEN Push(s, p, send) ELSE s
                       : p \in nextHopsSNEK(s, send, TRUE) }
               : pid \in PathIDs }
\* _bootstrapNow comparing the root key of the ascending entry but not its
\* root sequence.
bootstrapNow_ignoresSequence(s) ==
    IF s.parent = NilPeer
    THEN {s}
    ELSE IF /\ s.ascending # Nil
            /\ Started(s, Deref(s.ascending).Source)
            /\ Deref(s.ascending).RootPublicKey = s.root.RootPublicKey
    THEN {s}
    ELSE UNION { LET send == Frame("Bootstrap", s.public, NoKey, s.coords, <<>>,
                                   pid, s.root.RootPublicKey, s.root.Sequence)
                 IN  { IF HasProto(p) THEN Push(s, p, send) ELSE s
                       : p \in nextHopsSNEK(s, send, TRUE) }
               : pid \in PathIDs }
bootstrapNow(s) ==
    IF s.parent = NilPeer
    THEN {s}
    ELSE IF /\ s.ascending # Nil
            /\ Started(s, Deref(s.ascending).Source)
            /\ Deref(s.ascending).RootPublicKey = s.root.RootPublicKey
            /\ Deref(s.ascending).RootSequence = s.root.Sequence
    THEN {s}
    ELSE UNION { LET send == Frame("Bootstrap", s.public, NoKey, s.coords, <<>>,
                                   pid, s.root.RootPublicKey, s.root.Sequence)
                 IN  { IF HasProto(p) THEN Push(s, p, send) ELSE s
                       : p \in nextHopsSNEK(s, send, TRUE) }
               : pid \in PathIDs }

\* _teardownPath sending the teardown of an entry in between back to the
\* side it came from.
teardownPath_sameSide(s, from, pathKey, pathID) ==
    LET asc == s.ascending
        desc == s.descending
        k == <<pathKey, pathID>>
    IN  IF /\ asc # Nil
           /\ Deref(asc).PublicKey = pathKey /\ Deref(asc).PathID = pathID
           /\ (local(from) \/ from = Deref(asc).Destination)
        THEN { [s |-> t, hops |-> <<Deref(asc).Destination>>]
               : t \in bootstrapNow([s EXCEPT !.ascending = Nil,
                                              !.table = Remove(@, k)]) }
        ELSE IF /\ desc # Nil
                /\ Deref(desc).PublicKey = pathKey /\ Deref(desc).PathID = pathID
                /\ (from = Deref(desc).Source \/ local(from))
        THEN { [s |-> [s EXCEPT !.descending = Nil, !.table = Remove(@, k)],
                hops |-> <<Deref(desc).Source>>] }
        ELSE IF k \in DOMAIN s.table
        THEN LET v == s.table[k]
                 deleted == [s EXCEPT !.table = Remove(@, k)]
             IN  IF local(from)
                 THEN {[s |-> deleted, hops |-> <<v.Destination, v.Source>>]}
                 ELSE IF from = v.Source
                 THEN {[s |-> deleted, hops |-> <<v.Source>>]}
                 ELSE IF from = v.Destination
                 THEN {[s |-> deleted, hops |-> <<v.Destination>>]}
                 ELSE {[s |-> s, hops |-> <<>>]}
        ELSE {[s |-> s, hops |-> <<>>]}
\* _teardownPath without the deferred call of _bootstrapNow.
teardownPath_noBootstrap(s, from, pathKey, pathID) ==
    LET asc == s.ascending
        desc == s.descending
        k == <<pathKey, pathID>>
    IN  IF /\ asc # Nil
           /\ Deref(asc).PublicKey = pathKey /\ Deref(asc).PathID = pathID
           /\ (local(from) \/ from = Deref(asc).Destination)
        THEN {[s |-> [s EXCEPT !.ascending = Nil, !.table = Remove(@, k)],
               hops |-> <<Deref(asc).Destination>>]}
        ELSE IF /\ desc # Nil
                /\ Deref(desc).PublicKey = pathKey /\ Deref(desc).PathID = pathID
                /\ (from = Deref(desc).Source \/ local(from))
        THEN { [s |-> [s EXCEPT !.descending = Nil, !.table = Remove(@, k)],
                hops |-> <<Deref(desc).Source>>] }
        ELSE IF k \in DOMAIN s.table
        THEN LET v == s.table[k]
                 deleted == [s EXCEPT !.table = Remove(@, k)]
             IN  IF local(from)
                 THEN {[s |-> deleted, hops |-> <<v.Destination, v.Source>>]}
                 ELSE IF from = v.Source
                 THEN {[s |-> deleted, hops |-> <<v.Destination>>]}
                 ELSE IF from = v.Destination
                 THEN {[s |-> deleted, hops |-> <<v.Source>>]}
                 ELSE {[s |-> s, hops |-> <<>>]}
        ELSE {[s |-> s, hops |-> <<>>]}
\* _teardownPath with the descending branch forgetting s._descending = nil.
teardownPath_keepsDescending(s, from, pathKey, pathID) ==
    LET asc == s.ascending
        desc == s.descending
        k == <<pathKey, pathID>>
    IN  IF /\ asc # Nil
           /\ Deref(asc).PublicKey = pathKey /\ Deref(asc).PathID = pathID
           /\ (local(from) \/ from = Deref(asc).Destination)
        THEN { [s |-> t, hops |-> <<Deref(asc).Destination>>]
               : t \in bootstrapNow([s EXCEPT !.ascending = Nil,
                                              !.table = Remove(@, k)]) }
        ELSE IF /\ desc # Nil
                /\ Deref(desc).PublicKey = pathKey /\ Deref(desc).PathID = pathID
                /\ (from = Deref(desc).Source \/ local(from))
        THEN { [s |-> [s EXCEPT !.table = Remove(@, k)],
                hops |-> <<Deref(desc).Source>>] }
        ELSE IF k \in DOMAIN s.table
        THEN LET v == s.table[k]
                 deleted == [s EXCEPT !.table = Remove(@, k)]
             IN  IF local(from)
                 THEN {[s |-> deleted, hops |-> <<v.Destination, v.Source>>]}
                 ELSE IF from = v.Source
                 THEN {[s |-> deleted, hops |-> <<v.Destination>>]}
                 ELSE IF from = v.Destination
                 THEN {[s |-> deleted, hops |-> <<v.Source>>]}
                 ELSE {[s |-> s, hops |-> <<>>]}
        ELSE {[s |-> s, hops |-> <<>>]}
\* _teardownPath with the ascending branch forgetting s._ascending = nil.
teardownPath_keepsAscending(s, from, pathKey, pathID) ==
    LET asc == s.ascending
        desc == s.descending
        k == <<pathKey, pathID>>
    IN  IF /\ asc # Nil
           /\ Deref(asc).PublicKey = pathKey /\ Deref(asc).PathID = pathID
           /\ (local(from) \/ from = Deref(asc).Destination)
        THEN {[s |-> [s EXCEPT !.table = Remove(@, k)],
               hops |-> <<Deref(asc).Destination>>]}
        ELSE IF /\ desc # Nil
                /\ Deref(desc).PublicKey = pathKey /\ Deref(desc).PathID = pathID
                /\ (from = Deref(desc).Source \/ local(from))
        THEN { [s |-> [s EXCEPT !.descending = Nil, !.table = Remove(@, k)],
                hops |-> <<Deref(desc).Source>>] }
        ELSE IF k \in DOMAIN s.table
        THEN LET v == s.table[k]
                 deleted == [s EXCEPT !.table = Remove(@, k)]
             IN  IF local(from)
                 THEN {[s |-> deleted, hops |-> <<v.Destination, v.Source>>]}
                 ELSE IF from = v.Source
                 THEN {[s |-> deleted, hops |-> <<v.Destination>>]}
                 ELSE IF from = v.Destination
                 THEN {[s |-> deleted, hops |-> <<v.Source>>]}
                 ELSE {[s |-> s, hops |-> <<>>]}
        ELSE {[s |-> s, hops |-> <<>>]}

(***************************************************************************)
(* _teardownPath: the states after the call (the deferred _bootstrapNow    *)
(* has run) and the peers returned.                                        *)
(***************************************************************************)
teardownPath(s, from, pathKey, pathID) ==
    LET asc == s.ascending
        desc == s.descending
        k == <<pathKey, pathID>>
    IN  IF /\ asc # Nil
           /\ Deref(asc).PublicKey = pathKey /\ Deref(asc).PathID = pathID
           /\ (local(from) \/ from = Deref(asc).Destination)
        THEN { [s |-> t, hops |-> <<Deref(asc).Destination>>]
               : t \in bootstrapNow([s EXCEPT !.ascending = Nil,
                                              !.table = Remove(@, k)]) }
        ELSE IF /\ desc # Nil
                /\ Deref(desc).PublicKey = pathKey /\ Deref(desc).PathID = pathID
                /\ (from = Deref(desc).Source \/ local(from))
        THEN { [s |-> [s EXCEPT !.descending = Nil, !.table = Remove(@, k)],
                hops |-> <<Deref(desc).Source>>] }
        ELSE IF k \in DOMAIN s.table
        THEN LET v == s.table[k]
                 deleted == [s EXCEPT !.table = Remove(@, k)]
             IN  IF local(from)
                 THEN {[s |-> deleted, hops |-> <<v.Destination, v.Source>>]}
                 ELSE IF from = v.Source
                 THEN {[s |-> deleted, hops |-> <<v.Destination>>]}
                 ELSE IF from = v.Destination
                 THEN {[s |-> deleted, hops |-> <<v.Source>>]}
                 ELSE {[s |-> s, hops |-> <<>>]}
        ELSE {[s |-> s, hops |-> <<>>]}

(***************************************************************************)
(* _getTeardown, _sendTeardownForRejectedPath, _sendTeardownForExistingPath*)
(***************************************************************************)
getTeardown(pathKey, pathID) ==
    Frame("Teardown", pathKey, NoKey, <<>>, <<>>, pathID, NoKey, 0)

\* _sendTeardownForRejectedPath with the test of via the other way round.
sendTeardownForRejectedPath_nilTestInverted(s, pathKey, pathID, via) ==
    IF via = NilPeer THEN Push(s, via, getTeardown(pathKey, pathID)) ELSE s
sendTeardownForRejectedPath(s, pathKey, pathID, via) ==
    IF via # NilPeer THEN Push(s, via, getTeardown(pathKey, pathID)) ELSE s

RECURSIVE pushAll(_, _, _)
pushAll(s, hops, frame) ==
    IF hops = <<>>
    THEN s
    ELSE pushAll(IF HasProto(Head(hops)) THEN Push(s, Head(hops), frame) ELSE s,
                 Tail(hops), frame)

\* _sendTeardownForExistingPath telling only the first of the peers
\* _teardownPath returns.
sendTeardownForExistingPath_firstHopOnly(s, from, pathKey, pathID) ==
    { pushAll(r.s, SubSeq(r.hops, 1, 1), getTeardown(pathKey, pathID))
      : r \in teardownPath(s, from, pathKey, pathID) }
sendTeardownForExistingPath(s, from, pathKey, pathID) ==
    { pushAll(r.s, r.hops, getTeardown(pathKey, pathID))
      : r \in teardownPath(s, from, pathKey, pathID) }

(***************************************************************************)
(* _maintainSnake, for a router whose context is not cancelled.            *)
(***************************************************************************)
rootDiffers(e, rootAnn) ==
    e.RootPublicKey # rootAnn.RootPublicKey \/ e.RootSequence # rootAnn.Sequence

maintainSnake(s) ==
    LET canBootstrap == s.parent # NilPeer /\ s.root.RootPublicKey # s.public
        asc == s.ascending
        \* the switch on the ascending entry: the state and willBootstrap
        afterAsc ==
            IF asc # Nil
            THEN IF ~valid(Deref(asc), s.now)
                 THEN { [s |-> t, will |-> canBootstrap]
                        : t \in sendTeardownForExistingPath(s, LocalPort,
                                    Deref(asc).PublicKey, Deref(asc).PathID) }
                 ELSE IF rootDiffers(Deref(asc), s.root)
                 THEN {[s |-> s, will |-> canBootstrap]}
                 ELSE {[s |-> s, will |-> FALSE]}
            ELSE {[s |-> s, will |-> canBootstrap]}
        afterDesc(r) ==
            LET desc == r.s.descending
            IN  IF desc # Nil /\ ~valid(Deref(desc), r.s.now)
                THEN { [s |-> t, will |-> r.will]
                       : t \in sendTeardownForExistingPath(r.s, LocalPort,
                                   Deref(desc).PublicKey, Deref(desc).PathID) }
                ELSE {r}
    IN  UNION { IF r.will THEN bootstrapNow(r.s) ELSE {r.s}
                : r \in UNION {afterDesc(a) : a \in afterAsc} }

(***************************************************************************)
(* _handleBootstrap.  nexthop is what _nextHopsTree returns for the ACK.   *)
(***************************************************************************)
\* _handleBootstrap with the test of the next hop the wrong way round: the
\* ACK is never pushed.
handleBootstrap_noAck(s, from, rx, nexthop) ==
    IF rx.Malformed
    THEN {[s EXCEPT !.ret = "error"]}
    ELSE LET send == Frame("BootstrapACK", rx.DestinationKey, s.public, s.coords,
                           rx.Source, rx.PathID, s.root.RootPublicKey, s.root.Sequence)
         IN  {[(IF ~HasProto(nexthop) THEN Push(s, nexthop, send) ELSE s)
                 EXCEPT !.ret = "acked"]}

handleBootstrap(s, from, rx, nexthop) ==
    IF rx.Malformed
    THEN {[s EXCEPT !.ret = "error"]}
    ELSE LET send == Frame("BootstrapACK", rx.DestinationKey, s.public, s.coords,
                           rx.Source, rx.PathID, s.root.RootPublicKey, s.root.Sequence)
         IN  {[(IF HasProto(nexthop) THEN Push(s, nexthop, send) ELSE s)
                 EXCEPT !.ret = "acked"]}

(***************************************************************************)
(* The test both handlers make before they install a path: the setup must  *)
(* have been pushed to a next hop.  pushOk is what proto.push returns.     *)
(***************************************************************************)
\* The switch on the next hop without its last case, !nexthop.proto.push.
nextHopFails_ignoresPush(s, nexthop, pushOk) ==
    \/ nexthop = NilPeer
    \/ local(nexthop)
    \/ ~Started(s, nexthop)
    \/ ~HasProto(nexthop)
nextHopFails(s, nexthop, pushOk) ==
    \/ nexthop = NilPeer
    \/ local(nexthop)
    \/ ~Started(s, nexthop)
    \/ ~HasProto(nexthop)
    \/ ~pushOk

(***************************************************************************)
(* _handleBootstrapACK.  nexthop is what _nextHopsTree returns for the     *)
(* setup.                                                                  *)
(***************************************************************************)
\* The switch of _handleBootstrapACK with the keys compared the other way
\* round: util.DHTOrdered(asc.Origin, rx.SourceKey, s.r.public) and
\* util.LessThan(rx.SourceKey, s.r.public).
ackUpdate_orderSwapped(s, rx) ==
    LET asc == s.ascending
    IN  IF rx.SourceKey = s.public THEN FALSE
        ELSE IF rx.RootPublicKey # s.root.RootPublicKey THEN FALSE
        ELSE IF rx.RootSequence # s.root.Sequence THEN FALSE
        ELSE IF asc # Nil /\ valid(Deref(asc), s.now)
        THEN \/ Deref(asc).PublicKey = rx.SourceKey /\ rx.PathID # Deref(asc).PathID
             \/ DHTOrdered(Deref(asc).Origin, rx.SourceKey, s.public)
        ELSE LessThan(rx.SourceKey, s.public)
ackUpdate(s, rx) ==
    LET asc == s.ascending
    IN  IF rx.SourceKey = s.public THEN FALSE
        ELSE IF rx.RootPublicKey # s.root.RootPublicKey THEN FALSE
        ELSE IF rx.RootSequence # s.root.Sequence THEN FALSE
        ELSE IF asc # Nil /\ valid(Deref(asc), s.now)
        THEN \/ Deref(asc).PublicKey = rx.SourceKey /\ rx.PathID # Deref(asc).PathID
             \/ DHTOrdered(s.public, rx.SourceKey, Deref(asc).Origin)
        ELSE LessThan(s.public, rx.SourceKey)

\* The loop over s._table with its test the other way round,
\* entry.PublicKey == rx.SourceKey: no entry with the local peer as source
\* has the key of another router, so nothing is torn down.
teardownLocalPaths_none(s, sourceKey, todo) == {s}

\* for dhtKey, entry := range s._table: a map, walked in any order; an entry
\* deleted before the walk reaches it is not visited.
RECURSIVE teardownLocalPaths(_, _, _)
teardownLocalPaths(s, sourceKey, todo) ==
    IF todo = {}
    THEN {s}
    ELSE UNION { IF /\ k \in DOMAIN s.table
                    /\ local(s.table[k].Source)
                    /\ s.table[k].PublicKey # sourceKey
                 THEN UNION { teardownLocalPaths(t, sourceKey, todo \ {k})
                              : t \in sendTeardownForExistingPath(s, LocalPort, k[1], k[2]) }
                 ELSE teardownLocalPaths(s, sourceKey, todo \ {k})
               : k \in todo }

handleBootstrapACK_installsFirst(s, from, rx, nexthop, pushOk) ==
    IF rx.Malformed
    THEN {[s EXCEPT !.ret = "error"]}
    ELSE IF ~ackUpdate(s, rx)
    THEN {[s EXCEPT !.ret = "ignored"]}
    ELSE LET index == <<s.public, rx.PathID>>
             entry == [PublicKey |-> s.public, PathID |-> rx.PathID,
                       Origin |-> rx.SourceKey, Source |-> LocalPort,
                       Destination |-> nexthop, LastSeen |-> s.now,
                       RootPublicKey |-> rx.RootPublicKey,
                       RootSequence |-> rx.RootSequence]
             installed == [s EXCEPT !.table = Put(@, index, entry),
                                    !.ascending = Ptr(entry)]
         IN  IF nextHopFails(s, nexthop, pushOk)
             THEN {[installed EXCEPT !.ret = "aborted"]}
             ELSE {[installed EXCEPT !.ret = "installed"]}

handleBootstrapACK(s, from, rx, nexthop, pushOk) ==
    IF rx.Malformed
    THEN {[s EXCEPT !.ret = "error"]}
    ELSE IF ~ackUpdate(s, rx)
    THEN {[s EXCEPT !.ret = "ignored"]}
    ELSE IF nextHopFails(s, nexthop, pushOk)
    THEN {[s EXCEPT !.ret = "aborted"]}
    ELSE LET send == Frame("Setup", rx.SourceKey, s.public, <<>>, rx.Source,
                           rx.PathID, s.root.RootPublicKey, s.root.Sequence)
             index == <<s.public, rx.PathID>>
             entry == [PublicKey |-> s.public, PathID |-> rx.PathID,
                       Origin |-> rx.SourceKey, Source |-> LocalPort,
                       Destination |-> nexthop, LastSeen |-> s.now,
                       RootPublicKey |-> rx.RootPublicKey,
                       RootSequence |-> rx.RootSequence]
             pushed == Push(s, nexthop, send)
         IN  { [t EXCEPT !.table = Put(@, index, entry),
                         !.ascending = Ptr(entry),
                         !.ret = "installed"]
               : t \in teardownLocalPaths(pushed, rx.SourceKey, DOMAIN pushed.table) }

(***************************************************************************)
(* _handleSetup.  nexthop is the tree next hop the router computed.        *)
(***************************************************************************)
\* The update rule of _handleSetup with the key comparison the wrong way
\* round, as the ACK handler has it.
setupUpdate_orderFlipped(s, rx) ==
    LET desc == s.descending
    IN  IF rx.RootPublicKey # s.root.RootPublicKey THEN FALSE
        ELSE IF rx.RootSequence # s.root.Sequence THEN FALSE
        ELSE IF ~LessThan(s.public, rx.SourceKey) THEN FALSE
        ELSE IF desc # Nil /\ valid(Deref(desc), s.now)
        THEN \/ Deref(desc).PublicKey = rx.SourceKey /\ rx.PathID # Deref(desc).PathID
             \/ DHTOrdered(Deref(desc).PublicKey, rx.SourceKey, s.public)
        ELSE LessThan(s.public, rx.SourceKey)

setupUpdate(s, rx) ==
    LET desc == s.descending
    IN  IF rx.RootPublicKey # s.root.RootPublicKey THEN FALSE
        ELSE IF rx.RootSequence # s.root.Sequence THEN FALSE
        ELSE IF ~LessThan(rx.SourceKey, s.public) THEN FALSE
        ELSE IF desc # Nil /\ valid(Deref(desc), s.now)
        THEN \/ Deref(desc).PublicKey = rx.SourceKey /\ rx.PathID # Deref(desc).PathID
             \/ DHTOrdered(Deref(desc).PublicKey, rx.SourceKey, s.public)
        ELSE LessThan(rx.SourceKey, s.public)

handleSetup(s, from, rx, nexthop, pushOk) ==
    LET index == <<rx.SourceKey, rx.PathID>>
        entry(dst) == [PublicKey |-> rx.SourceKey, PathID |-> rx.PathID,
                       Origin |-> rx.SourceKey, Source |-> from,
                       Destination |-> dst, LastSeen |-> s.now,
                       RootPublicKey |-> rx.RootPublicKey,
                       RootSequence |-> rx.RootSequence]
        reject(t, why) ==
            [sendTeardownForRejectedPath(t, rx.SourceKey, rx.PathID, from)
               EXCEPT !.ret = why]
    IN  IF rx.Malformed
        THEN {[s EXCEPT !.ret = "error"]}
        ELSE IF rootDiffers(rx, s.root)
        THEN {reject(s, "epoch")}
        ELSE IF index \in DOMAIN s.table
        THEN { reject(t, "duplicate")
               : t \in sendTeardownForExistingPath(s, LocalPort, rx.SourceKey, rx.PathID) }
        ELSE IF rx.DestinationKey = s.public
        THEN IF ~setupUpdate(s, rx)
             THEN {reject(s, "rejected")}
             ELSE LET desc == s.descending
                      cleared ==
                          IF desc # Nil
                          THEN sendTeardownForExistingPath(s, LocalPort,
                                   Deref(desc).PublicKey, Deref(desc).PathID)
                          ELSE {s}
                  IN  { [t EXCEPT !.table = Put(@, index, entry(LocalPort)),
                                  !.descending = Ptr(entry(LocalPort)),
                                  !.ret = "descending"]
                        : t \in cleared }
        ELSE IF nextHopFails(s, nexthop, pushOk)
        THEN {reject(s, "unforwarded")}
        ELSE {[Push(s, nexthop, rx) EXCEPT !.table = Put(@, index, entry(nexthop)),
                                           !.ret = "transit"]}

(***************************************************************************)
(* _handleTeardown: the states after the call, with the peers returned.    *)
(***************************************************************************)
\* _handleTeardown handing _teardownPath the local peer in place of from.
handleTeardown_fromLocal(s, from, rx) ==
    IF rx.Malformed
    THEN {[s EXCEPT !.ret = "error"]}
    ELSE { [r.s EXCEPT !.hops = r.hops, !.ret = "done"]
           : r \in teardownPath(s, LocalPort, rx.DestinationKey, rx.PathID) }
handleTeardown(s, from, rx) ==
    IF rx.Malformed
    THEN {[s EXCEPT !.ret = "error"]}
    ELSE { [r.s EXCEPT !.hops = r.hops, !.ret = "done"]
           : r \in teardownPath(s, from, rx.DestinationKey, rx.PathID) }

(***************************************************************************)
(* Router.Connect: the port the loop over s._peers allocates, or 0 when it *)
(* finds none.  The slice has PortCount elements, indexed from 0.          *)
(***************************************************************************)
PeerSlots == 0..(PortCount - 1)

\* The loop with the test p != nil left out.
connectPort_ignoresOccupied(ps) ==
    LET free == {i \in PeerSlots : i # 0}
    IN  IF free = {} THEN NilPeer ELSE CHOOSE i \in free : \A j \in free : i <= j

\* The index at which the loop makes the new peer, NilPeer when it ends with
\* new == nil.
connectPort(ps) ==
    LET free == {i \in PeerSlots : i # 0 /\ i \notin DOMAIN ps}
    IN  IF free = {} THEN NilPeer ELSE CHOOSE i \in free : \A j \in free : i <= j

(***************************************************************************)
(* The state of the router as the record the operators work on, and the    *)
(* record of the last operation: its inputs, the frames it pushed, the     *)
(* branch it returned from, the peers or the port it returned.             *)
(***************************************************************************)
State ==
    [public |-> LocalKey, coords |-> LocalCoords, now |-> now,
     parent |-> parent, root |-> root, announcements |-> announcements,
     peers |-> peers, table |-> table, ascending |-> ascending,
     descending |-> descending, out |-> <<>>, hops |-> <<>>, ret |-> ""]

Event(op, from, rx, nexthop, pushOk, s) ==
    [op |-> op, from |-> from, rx |-> rx, nexthop |-> nexthop, pushOk |-> pushOk,
     out |-> s.out, hops |-> s.hops, ret |-> s.ret, port |-> 0,
     bootstrap |-> FALSE, best |-> NilPeer]

\* No network: the router is looked at on its own.
NoNet == <<>>

(***************************************************************************)
(* r.pings, the rendezvous of Router.SNEKPing and Router.TreePing: a       *)
(* sync.Map from the destination to the channel the call waits on.  A call *)
(* is a goroutine of its own; its channel is named after the caller.       *)
(***************************************************************************)
Callers == 1..MaxCallers

\* The key of the map: dst for SNEKPing, dst.String() for TreePing.
SNEKPingKey(dst) == [type |-> "PublicKey", key |-> dst, coords |-> <<>>]
TreePingKey(dst) == [type |-> "string", key |-> NoKey, coords |-> dst]

NoCall == [pc |-> "idle", dst |-> SNEKPingKey(NoKey), ret |-> ""]
NoPings == [map |-> <<>>, call |-> [c \in Callers |-> NoCall]]

\* sync.Map.LoadOrStore writing the value over the one that is there.
LoadOrStore_overwrites(m, key, value) ==
    [map |-> Put(m, key, value),
     v |-> IF key \in DOMAIN m THEN m[key] ELSE value,
     existing |-> key \in DOMAIN m]

\* sync.Map.LoadOrStore: v and existing, and the map after the call.
LoadOrStore(m, key, value) ==
    IF key \in DOMAIN m
    THEN [map |-> m, v |-> m[key], existing |-> TRUE]
    ELSE [map |-> Put(m, key, value), v |-> value, existing |-> FALSE]

\* sync.Map.Delete
Delete(m, key) == Remove(m, key)

Idle == [op |-> "idle", from |-> NilPeer, rx |-> NoFrame, nexthop |-> NilPeer,
         pushOk |-> TRUE, out |-> <<>>, hops |-> <<>>, ret |-> "", port |-> 0,
         bootstrap |-> FALSE, best |-> NilPeer]

\* The snake state of s becomes the next state.  An entry stays overdue
\* while it stays in the table; a tick makes overdue the expired entries it
\* leaves there.
Becomes(s, tick) ==
    /\ table' = s.table
    /\ ascending' = s.ascending
    /\ descending' = s.descending
    /\ overdue' = IF tick
                  THEN {k \in DOMAIN s.table : ~valid(s.table[k], s.now)}
                  ELSE {k \in overdue \cap DOMAIN s.table : s.table[k] = table[k]}

RemotePorts == DOMAIN peers \ {LocalPort}

\* The root key of the network the peers are in.
NetworkRoot == MaxKey

\* The frames a peer can deliver, by type and destination key.
Received(type, dkeys) ==
    { Frame(type, dk, sk, <<>>, <<>>, pid, NetworkRoot, rs)
      : dk \in dkeys, sk \in Keys, pid \in PathIDs, rs \in Seqs }
    \cup {[NoFrame EXCEPT !.Type = type, !.Malformed = TRUE]}

Teardowns ==
    { getTeardown(k, pid) : k \in Keys, pid \in PathIDs }
    \cup {[NoFrame EXCEPT !.Type = "Teardown", !.Malformed = TRUE]}

\* What the tree next hop and the push onto its queue can be: push is only
\* called, and so can only fail, on a started remote peer.
NextHops ==
    { <<p, TRUE>> : p \in DOMAIN peers \cup {NilPeer} }
    \cup { <<p, FALSE>> : p \in {q \in RemotePorts : peers[q].started} }

\* The tree next hop of a setup: the local peer at the setup's destination.
SetupNextHops(rx) ==
    IF rx.DestinationKey = LocalKey THEN {<<LocalPort, TRUE>>} ELSE NextHops

\* _handleBootstrapACK asks for the tree next hop only once it has accepted
\* the ACK.
AckNextHops(rx) ==
    IF ~rx.Malformed /\ ackUpdate(State, rx) THEN NextHops ELSE {<<NilPeer, TRUE>>}

(***************************************************************************)
(* The operations of the router actor.  The actor runs one at a time; ev   *)
(* holds the last one until the actor takes the next message.              *)
(***************************************************************************)
Init ==
    /\ peers = (LocalPort :> [public |-> LocalKey, started |-> TRUE])
    /\ parent = NilPeer
    /\ root = [RootPublicKey |-> LocalKey, Sequence |-> 1]
    /\ announcements = <<>>
    /\ now = 0
    /\ table = <<>>
    /\ ascending = Nil
    /\ descending = Nil
    /\ frames = 0
    /\ overdue = {}
    /\ held = EmptyBag
    /\ net = NoNet
    /\ pings = NoPings
    /\ ev = Idle

Return ==
    /\ ev.op # "idle"
    /\ ev' = Idle
    /\ UNCHANGED <<pings, peers, parent, root, announcements, now, table, ascending,
                   descending, frames, overdue, held, net>>

\* Router.Connect.  The loop runs inside phony.Block on the state actor, so
\* concurrent calls take their turns: each is one step.
Connect(public) ==
    /\ LET new == connectPort(peers)
       IN  IF new = NilPeer
           THEN /\ ev' = [Idle EXCEPT !.op = "connect", !.ret = "error", !.port = 0]
                /\ UNCHANGED <<peers, held>>
           ELSE /\ peers' = Put(peers, new, [public |-> public, started |-> TRUE])
                /\ held' = held (+) SetToBag({new})
                /\ ev' = [Idle EXCEPT !.op = "connect", !.ret = "ok", !.port = new]
    /\ UNCHANGED <<pings, parent, root, announcements, now, table, ascending, descending,
                   frames, overdue, net>>

\* The peer on port p is detached: its slot is free again.
Detach(p) ==
    /\ peers' = Remove(peers, p)
    /\ held' = held (-) SetToBag({p})
    /\ UNCHANGED <<pings, parent, root, announcements, now, table, ascending, descending,
                   frames, overdue, net, ev>>

\* The peer on port p stops: its started flag is cleared.
PeerStop(p) ==
    /\ peers[p].started
    /\ peers' = [peers EXCEPT ![p].started = FALSE]
    /\ UNCHANGED <<pings, parent, root, announcements, now, table, ascending, descending,
                   frames, overdue, held, net, ev>>

\* The tree picks the parent p and the root announcement that comes with
\* it; with no parent the router is its own root.
TreeChange(p, seq) ==
    /\ parent' = p
    /\ root' = IF p = NilPeer
               THEN [RootPublicKey |-> LocalKey, Sequence |-> 1]
               ELSE [RootPublicKey |-> NetworkRoot, Sequence |-> seq]
    /\ <<parent', root'>> # <<parent, root>>
    /\ UNCHANGED <<pings, peers, announcements, now, table, ascending, descending, frames,
                   overdue, held, net, ev>>

AdvanceTime ==
    /\ now + ClockStep <= MaxClockSteps * ClockStep
    /\ now' = now + ClockStep
    /\ UNCHANGED <<pings, peers, parent, root, announcements, table, ascending, descending,
                   frames, overdue, held, net, ev>>

MaintainSnake ==
    /\ \E s \in maintainSnake(State) :
          /\ Becomes(s, TRUE)
          /\ ev' = Event("maintain", LocalPort, NoFrame, NilPeer, TRUE, s)
    /\ UNCHANGED <<pings, peers, parent, root, announcements, now, frames, held, net>>

HandleBootstrapACK(from, rx, nexthop, pushOk) ==
    /\ frames' = frames + 1
    /\ \E s \in handleBootstrapACK(State, from, rx, nexthop, pushOk) :
          /\ Becomes(s, FALSE)
          /\ ev' = Event("ack", from, rx, nexthop, pushOk, s)
    /\ UNCHANGED <<pings, peers, parent, root, announcements, now, held, net>>

HandleSetup(from, rx, nexthop, pushOk) ==
    /\ frames' = frames + 1
    /\ \E s \in handleSetup(State, from, rx, nexthop, pushOk) :
          /\ Becomes(s, FALSE)
          /\ ev' = Event("setup", from, rx, nexthop, pushOk, s)
    /\ UNCHANGED <<pings, peers, parent, root, announcements, now, held, net>>

HandleTeardown(from, rx) ==
    /\ frames' = frames + 1
    /\ \E s \in handleTeardown(State, from, rx) :
          /\ Becomes(s, FALSE)
          /\ ev' = Event("teardown", from, rx, NilPeer, TRUE, s)
    /\ UNCHANGED <<pings, peers, parent, root, announcements, now, held, net>>

\* The parent, when there is one, is the peer on port 1: the snake treats the
\* remote ports alike.
Parents == {NilPeer} \cup (RemotePorts \cap {1})

\* The actor is free to take the next message, and a peer may deliver one.
Ready == ev.op = "idle"

Deliverable == Ready /\ frames < MaxFrames

Next ==
    \/ Return
    \/ Ready /\ Cardinality(RemotePorts) < MaxPeers /\ Connect(NetworkRoot)
    \/ Ready /\ \E p \in RemotePorts : PeerStop(p)
    \/ Ready /\ \E p \in Parents, seq \in Seqs : TreeChange(p, seq)
    \/ Ready /\ AdvanceTime
    \/ Ready /\ MaintainSnake
    \/ Deliverable /\ \E from \in RemotePorts, rx \in Received("BootstrapACK", {LocalKey}) :
          \E nh \in AckNextHops(rx) : HandleBootstrapACK(from, rx, nh[1], nh[2])
    \/ Deliverable /\ \E from \in RemotePorts, rx \in Received("Setup", {LocalKey, MaxKey}) :
          \E nh \in SetupNextHops(rx) : HandleSetup(from, rx, nh[1], nh[2])
    \/ Deliverable /\ \E from \in RemotePorts, rx \in Teardowns : HandleTeardown(from, rx)

Spec == Init /\ [][Next]_vars

(***************************************************************************)
(* The router as the owner of the ports: peers attach, and those on the    *)
(* ports up to MaxFreed detach again.                                      *)
(***************************************************************************)
NextConnect ==
    \/ Return
    \/ Ready /\ Connect(NetworkRoot)
    \/ Ready /\ \E p \in RemotePorts \cap (1..MaxFreed) : Detach(p)

SpecConnect == Init /\ [][NextConnect]_vars

(***************************************************************************)
(* _nextHopsSNEK as a function of the router state: the states it is       *)
(* called in, and the call.  An announcement ends with the signature of    *)
(* the peer it came from.  An entry whose source is the local peer is an   *)
(* ascending one; the others lead to another peer.  The walk over the      *)
(* table is examined with at most one signature per announcement and the   *)
(* root on port 1.                                                         *)
(***************************************************************************)
SnekPorts == 1..MaxPeers

RECURSIVE SnekSignatures(_, _)
SnekSignatures(key, n) ==
    IF n = 1
    THEN {<<key>>}
    ELSE {<<key>>} \cup {<<a>> \o sigs : a \in Keys, sigs \in SnekSignatures(key, n - 1)}

SnekEntry(key, pid, src, seen) ==
    [PublicKey |-> key, PathID |-> pid, Origin |-> key, Source |-> src,
     Destination |-> IF local(src) THEN 1 ELSE CHOOSE q \in SnekPorts : q # src,
     LastSeen |-> seen, RootPublicKey |-> NetworkRoot, RootSequence |-> 1]

SnekEntries(pid) ==
    {SnekEntry(key, pid, src, seen) : key \in Keys, src \in SnekPorts, seen \in {0, ClockStep}}
    \cup {SnekEntry(LocalKey, pid, LocalPort, ClockStep)}

SnekTables ==
    {<<>>}
    \cup {(<<e.PublicKey, 1>> :> e) : e \in SnekEntries(1)}
    \cup {(<<e.PublicKey, 1>> :> e) @@ (<<f.PublicKey, 2>> :> f)
          : e \in SnekEntries(1), f \in SnekEntries(2)}

SnekPeers(tbl) ==
    { (LocalPort :> [public |-> LocalKey, started |-> TRUE]) @@ ps
      : ps \in {f \in [SnekPorts -> [public : Keys, started : BOOLEAN]] :
                   tbl # <<>> => f[1].public = NetworkRoot} }

SnekAnnouncements(ps, tbl) ==
    UNION { {ann \in [D -> UNION {SnekSignatures(k, MaxSigs) : k \in Keys}] :
                \A p \in D : ann[p] \in SnekSignatures(ps[p].public,
                                                     IF tbl = <<>> THEN MaxSigs ELSE 1)}
            : D \in SUBSET SnekPorts }

InitSNEK ==
    /\ now = ClockStep
    /\ parent \in {NilPeer, 1}
    /\ root = IF parent = NilPeer
              THEN [RootPublicKey |-> LocalKey, Sequence |-> 1]
              ELSE [RootPublicKey |-> NetworkRoot, Sequence |-> 1]
    /\ table \in SnekTables
    /\ peers \in SnekPeers(table)
    /\ announcements \in SnekAnnouncements(peers, table)
    /\ ascending = Nil
    /\ descending = Nil
    /\ frames = 0
    /\ overdue = {}
    /\ held = SetToBag(SnekPorts)
    /\ net = NoNet
    /\ pings = NoPings
    /\ ev = Idle

SnekFrame(destKey) == Frame("SNEK", destKey, NoKey, <<>>, <<>>, 0, NoKey, 0)

NextHopSNEK(destKey, bootstrap) ==
    /\ \E p \in nextHopsSNEK(State, SnekFrame(destKey), bootstrap) :
          ev' = [Idle EXCEPT !.op = "snek", !.rx = SnekFrame(destKey),
                             !.bootstrap = bootstrap, !.best = p]
    /\ UNCHANGED <<pings, peers, parent, root, announcements, now, table, ascending,
                   descending, frames, overdue, held, net>>

NextSNEK ==
    \/ Return
    \/ Ready /\ \E destKey \in Keys, bootstrap \in BOOLEAN : NextHopSNEK(destKey, bootstrap)

SpecSNEK == InitSNEK /\ [][NextSNEK]_vars

(***************************************************************************)
(* A quiescent network: three routers joined by the links of a spanning    *)
(* tree that does not change, the router with the highest key at its root. *)
(* At router i the peer on port j is router j.  The clock stands still:    *)
(* paths are set up in far less than the hour they are valid for.          *)
(***************************************************************************)
Nodes == 1..3

NodeKey(i) == IF i = 1 THEN 1 ELSE IF i = 2 THEN LocalKey ELSE NetworkRoot

NetRoot == 3

\* The trees: for each router its parent, 0 for the root.
NetTrees ==
    { (1 :> 3) @@ (2 :> 3) @@ (3 :> 0),
      (1 :> 2) @@ (2 :> 3) @@ (3 :> 0),
      (1 :> 3) @@ (2 :> 1) @@ (3 :> 0) }

Neighbours(i) == {j \in Nodes : net.up[i] = j \/ net.up[j] = i}

Links == {l \in Nodes \X Nodes : l[1] # l[2]}

\* The routers from the root down to router i.
RECURSIVE NetPath(_)
NetPath(i) == IF net.up[i] = 0 THEN <<i>> ELSE Append(NetPath(net.up[i]), i)

\* s._coords(): the ports from the root down to router i.
NetCoords(i) == Tail(NetPath(i))

\* The announcement router j sends its peers: signed from the root down to j.
NetAnnouncement(j) == [k \in 1..Len(NetPath(j)) |-> NodeKey(NetPath(j)[k])]

NodeState(i) ==
    [public |-> NodeKey(i), coords |-> NetCoords(i), now |-> now,
     parent |-> IF net.up[i] = 0 THEN NilPeer ELSE net.up[i],
     root |-> [RootPublicKey |-> NodeKey(NetRoot), Sequence |-> 1],
     announcements |-> [j \in Neighbours(i) |-> NetAnnouncement(j)],
     peers |-> (LocalPort :> [public |-> NodeKey(i), started |-> TRUE])
               @@ [j \in Neighbours(i) |-> [public |-> NodeKey(j), started |-> TRUE]],
     table |-> net.snake[i].table, ascending |-> net.snake[i].ascending,
     descending |-> net.snake[i].descending, out |-> <<>>, hops |-> <<>>, ret |-> ""]

\* _nextHopsTree: the peer on the way to the coordinates, the local peer at
\* the coordinates.
nextHopsTree(s, coords) ==
    IF coords = s.coords
    THEN LocalPort
    ELSE IF /\ Len(coords) > Len(s.coords)
            /\ SubSeq(coords, 1, Len(s.coords)) = s.coords
    THEN coords[Len(s.coords) + 1]
    ELSE s.parent

\* _forward: what the router does with the frame f that came from the peer
\* from.  Bootstraps and their ACKs are handled where they come to a dead
\* end, setups at every hop, teardowns go on to the peers _handleTeardown
\* returns.
forward(s, from, f) ==
    IF f.Type = "Bootstrap"
    THEN UNION { IF local(nh)
                 THEN handleBootstrap(s, from, f, nextHopsTree(s, f.Source))
                 ELSE {Push(s, nh, f)}
                 : nh \in nextHopsSNEK(s, f, TRUE) }
    ELSE IF f.Type = "BootstrapACK"
    THEN LET nh == nextHopsTree(s, f.Destination)
         IN  IF local(nh) \/ nh = NilPeer
             THEN handleBootstrapACK(s, from, f, nextHopsTree(s, f.Source), TRUE)
             ELSE {Push(s, nh, f)}
    ELSE IF f.Type = "Setup"
    THEN handleSetup(s, from, f, nextHopsTree(s, f.Destination), TRUE)
    ELSE {pushAll(r, r.hops, f) : r \in handleTeardown(s, from, f)}

\* The frames router i pushed are on its links, in the order of the pushes.
RECURSIVE Sent(_, _, _)
Sent(queue, i, out) ==
    IF out = <<>>
    THEN queue
    ELSE Sent([queue EXCEPT ![<<i, Head(out).to>>] = Append(@, Head(out).frame)],
              i, Tail(out))

InFlight == LET RECURSIVE sum(_)
                sum(ls) == IF ls = {} THEN 0
                           ELSE LET l == CHOOSE x \in ls : TRUE
                                IN  Len(net.queue[l]) + sum(ls \ {l})
            IN  sum(Links)

NodeBecomes(i, s, queue) ==
    /\ net' = [net EXCEPT !.snake[i] = [table |-> s.table, ascending |-> s.ascending,
                                        descending |-> s.descending],
                          !.queue = Sent(queue, i, s.out)]
    /\ UNCHANGED <<pings, peers, parent, root, announcements, now, table, ascending,
                   descending, frames, overdue, held, ev>>

InitNet ==
    /\ peers = (LocalPort :> [public |-> LocalKey, started |-> TRUE])
    /\ parent = NilPeer
    /\ root = [RootPublicKey |-> LocalKey, Sequence |-> 1]
    /\ announcements = <<>>
    /\ now = 0
    /\ table = <<>>
    /\ ascending = Nil
    /\ descending = Nil
    /\ frames = 0
    /\ overdue = {}
    /\ held = EmptyBag
    /\ pings = NoPings
    /\ ev = Idle
    /\ \E up \in NetTrees :
          net = [up |-> up,
                 snake |-> [i \in Nodes |-> [table |-> <<>>, ascending |-> Nil,
                                             descending |-> Nil]],
                 queue |-> [l \in Links |-> <<>>]]

\* The maintenance timer of router i fires, the links being nearly drained.
Tick(i) ==
    /\ InFlight < MaxInFlight
    /\ \E s \in maintainSnake(NodeState(i)) : NodeBecomes(i, s, net.queue)

\* Router i takes the next frame router j sent it.
Deliver(i, j) ==
    /\ net.queue[<<j, i>>] # <<>>
    /\ \E s \in forward(NodeState(i), j, Head(net.queue[<<j, i>>])) :
          NodeBecomes(i, s, [net.queue EXCEPT ![<<j, i>>] = Tail(@)])

NextNet ==
    \/ \E i \in Nodes : Tick(i)
    \/ \E l \in Links : Deliver(l[1], l[2])

\* The timers keep firing and the links keep delivering.
SpecNet ==
    /\ InitNet
    /\ [][NextNet]_vars
    /\ \A i \in Nodes : WF_vars(Tick(i))
    /\ \A l \in Links : WF_vars(Deliver(l[1], l[2]))

(***************************************************************************)
(* The network with a clock: an hour passes while the links are empty, so  *)
(* that the paths set up before are found expired by the routers at their  *)
(* ends.                                                                   *)
(***************************************************************************)
NetAdvanceTime ==
    /\ InFlight = 0
    /\ now + ClockStep <= MaxClockSteps * ClockStep
    /\ now' = now + ClockStep
    /\ UNCHANGED <<pings, peers, parent, root, announcements, table, ascending, descending,
                   frames, overdue, held, net, ev>>

\* The path (key, pid) is in use: a router holds an entry for it, or a setup
\* or a teardown for it is on a link.
PathInUse(key, pid) ==
    \/ \E i \in Nodes : <<key, pid>> \in DOMAIN net.snake[i].table
    \/ \E l \in Links : \E n \in DOMAIN net.queue[l] :
          LET f == net.queue[l][n]
          IN  /\ f.PathID = pid
              /\ \/ f.Type = "Setup" /\ f.SourceKey = key
                 \/ f.Type = "Teardown" /\ f.DestinationKey = key

\* rand.Read gives the bootstraps a router sends in a step path IDs that
\* are not in use: eight random bytes are taken not to repeat.
FreshPathIDs ==
    \A l \in Links :
        \A n \in (Len(net.queue[l]) + 1)..Len(net'.queue[l]) :
            LET f == net'.queue[l][n]
            IN  (f.Type = "Bootstrap" /\ f.DestinationKey = NodeKey(l[1]))
                => ~PathInUse(f.DestinationKey, f.PathID)

NextNetClock ==
    \/ \E i \in Nodes : Tick(i) /\ FreshPathIDs
    \/ \E l \in Links : Deliver(l[1], l[2]) /\ FreshPathIDs
    \/ NetAdvanceTime

SpecNetClock ==
    /\ InitNet
    /\ [][NextNetClock]_vars
    /\ \A i \in Nodes : WF_vars(Tick(i))
    /\ \A l \in Links : WF_vars(Deliver(l[1], l[2]))

(***************************************************************************)
(* The pings of one router: callers on goroutines of their own call        *)
(* SNEKPing and TreePing, replies come in, contexts end.                   *)
(***************************************************************************)
PingKeys == {LocalKey, NetworkRoot}
PingCoords == {LocalCoords, <<1>>}

PingStep(c, call, map) ==
    /\ pings' = [map |-> map, call |-> [pings.call EXCEPT ![c] = call]]
    /\ UNCHANGED <<peers, parent, root, announcements, now, table, ascending,
                   descending, frames, overdue, held, net, ev>>

\* Router.SNEKPing up to the call of LoadOrStore: a ping to the router
\* itself returns at once, any other is forwarded.
SNEKPing(c, dst) ==
    /\ pings.call[c].pc \in {"idle", "done"}
    /\ IF dst = State.public
       THEN PingStep(c, [pc |-> "done", dst |-> SNEKPingKey(dst), ret |-> "ok"], pings.map)
       ELSE PingStep(c, [pc |-> "forwarded", dst |-> SNEKPingKey(dst), ret |-> ""], pings.map)

\* Router.TreePing up to the call of LoadOrStore.
TreePing(c, dst) ==
    /\ pings.call[c].pc \in {"idle", "done"}
    /\ IF dst = State.coords
       THEN PingStep(c, [pc |-> "done", dst |-> TreePingKey(dst), ret |-> "ok"], pings.map)
       ELSE PingStep(c, [pc |-> "forwarded", dst |-> TreePingKey(dst), ret |-> ""], pings.map)

\* r.pings.LoadOrStore and the test of existing: the call returns the
\* error, or registers the deferred Delete and waits in the select.
PingLoadOrStore(c) ==
    /\ pings.call[c].pc = "forwarded"
    /\ LET r == LoadOrStore(pings.map, pings.call[c].dst, c)
       IN  IF r.existing
           THEN PingStep(c, [pings.call[c] EXCEPT !.pc = "done",
                                                  !.ret = "already in progress"], r.map)
           ELSE PingStep(c, [pings.call[c] EXCEPT !.pc = "waiting"], r.map)

\* case <-ch: the reply to the ping sent to dst has come in.
PingReply(dst) ==
    /\ dst \in DOMAIN pings.map
    /\ LET c == pings.map[dst]
       IN  /\ pings.call[c].pc = "waiting"
           /\ PingStep(c, [pings.call[c] EXCEPT !.pc = "returning", !.ret = "ok"],
                       pings.map)

\* case <-ctx.Done(): the context of the caller has ended.
PingContextDone(c) ==
    /\ pings.call[c].pc = "waiting"
    /\ PingStep(c, [pings.call[c] EXCEPT !.pc = "returning", !.ret = "timed out"],
                pings.map)

\* The return out of the select: the deferred r.pings.Delete runs.
PingReturn(c) ==
    /\ pings.call[c].pc = "returning"
    /\ PingStep(c, [pings.call[c] EXCEPT !.pc = "done"],
                Delete(pings.map, pings.call[c].dst))

NextPing ==
    \/ \E c \in Callers, dst \in PingKeys : SNEKPing(c, dst)
    \/ \E c \in Callers, dst \in PingCoords : TreePing(c, dst)
    \/ \E c \in Callers : PingLoadOrStore(c)
    \/ \E dst \in DOMAIN pings.map : PingReply(dst)
    \/ \E c \in Callers : PingContextDone(c)
    \/ \E c \in Callers : PingReturn(c)

SpecPing == Init /\ [][NextPing]_vars

(***************************************************************************)
(* C1: in every reachable state, if ascending is set then its source is    *)
(* the local peer, its destination is a remote peer, and the table holds,  *)
(* at (local key, ascending's path ID), the entry ascending points to.     *)
(***************************************************************************)
C1_AscendingWellFormed ==
    ascending # Nil =>
        /\ Deref(ascending).Source = LocalPort
        /\ Deref(ascending).Destination \in RemotePorts
        /\ <<LocalKey, Deref(ascending).PathID>> \in DOMAIN table
        /\ table[<<LocalKey, Deref(ascending).PathID>>] = Deref(ascending)

\* ascending is set, and a setup that carries the local key as its source
\* key has since been installed beside it.
C1_Witness ==
    /\ ascending # Nil
    /\ ev.op = "setup" /\ ev.ret = "transit" /\ ev.rx.SourceKey = LocalKey

(***************************************************************************)
(* C2: in every reachable state, if descending is set then its destination *)
(* is the local peer and its key is strictly lower than the local key.     *)
(***************************************************************************)
C2_DescendingWellFormed ==
    descending # Nil =>
        /\ Deref(descending).Destination = LocalPort
        /\ LessThan(Deref(descending).PublicKey, LocalKey)

\* A setup has just been accepted as the descending path.
C2_Witness ==
    /\ descending # Nil
    /\ ev.op = "setup" /\ ev.ret = "descending"

(***************************************************************************)
(* C3: every expired entry of the table, be it the ascending, the          *)
(* descending or a transit entry, is removed within two maintenance ticks: *)
(* a tick removes the expired entries that an earlier tick has left.       *)
(***************************************************************************)
C3_ExpiredRemovedWithinTwoTicks ==
    [][ev'.op = "maintain" =>
          \A k \in overdue : k \notin DOMAIN table' \/ table'[k] # table[k]]_vars

(***************************************************************************)
(* C4: when a bootstrap-ACK passes the acceptance rules and the setup      *)
(* cannot be pushed to the tree next hop (none, local, not started, no     *)
(* queue, push refused), the handler leaves the table, ascending and       *)
(* descending as they were and pushes no frame.                            *)
(***************************************************************************)
C4_AbortedAckLeavesState ==
    [][(/\ ev'.op = "ack"
        /\ ~ev'.rx.Malformed
        /\ ackUpdate(State, ev'.rx)
        /\ nextHopFails(State, ev'.nexthop, ev'.pushOk))
       => /\ UNCHANGED <<table, ascending, descending>>
          /\ ev'.out = <<>>]_vars

\* An accepted ACK whose setup the started next hop refused, at a node that
\* holds an ascending path.
C4_Witness ==
    /\ ev.op = "ack" /\ ev.ret = "aborted"
    /\ ev.nexthop \in RemotePorts /\ ~ev.pushOk
    /\ ascending # Nil

(***************************************************************************)
(* C6: a Connect fails with the no-free-ports error exactly when all the   *)
(* 255 ports 1..255 are in use, and succeeds otherwise: 255 remote peers   *)
(* can be attached at once.                                                *)
(***************************************************************************)
C6_ConnectFailsOnlyWhenFull ==
    [][ev'.op = "connect" => (ev'.ret = "error" <=> RemotePorts = 1..255)]_vars

(***************************************************************************)
(* C7: a successful Connect returns a port of 1..255, never 0, that was    *)
(* free when it was allocated while every lower port was in use, and no    *)
(* port is held by two attached peers, whatever the order in which         *)
(* concurrent calls are served.                                            *)
(***************************************************************************)
C7_LowestFreePort ==
    [][(ev'.op = "connect" /\ ev'.ret = "ok") =>
          /\ ev'.port \in 1..255
          /\ ev'.port \notin DOMAIN peers
          /\ \A i \in 1..(ev'.port - 1) : i \in DOMAIN peers
          /\ \A p \in BagToSet(held') : CopiesIn(p, held') = 1]_vars

\* A Connect has been given a port that a detached peer had freed, below
\* ports still in use.
C7_Witness ==
    /\ ev.op = "connect" /\ ev.ret = "ok"
    /\ \E q \in RemotePorts : q > ev.port

(***************************************************************************)
(* C8: for a fixed router state, frame and bootstrap flag, _nextHopsSNEK   *)
(* returns one and the same peer whatever the order in which the           *)
(* announcements map and the table are walked.                             *)
(***************************************************************************)
C8_NextHopDeterministic ==
    \A destKey \in Keys, bootstrap \in BOOLEAN :
        \A p, q \in nextHopsSNEK(State, SnekFrame(destKey), bootstrap) : p = q

(***************************************************************************)
(* C9: _nextHopsSNEK returns a peer, never none; it returns the local peer *)
(* for a frame that is no bootstrap and is addressed to the local key, and *)
(* whenever neither the parent, nor an ancestor, nor a direct peer, nor a  *)
(* table entry is accepted as a candidate.                                 *)
(***************************************************************************)
\* The candidate key is accepted against the local key.
C9_Accepted(destKey, bootstrap, candidate) ==
    \/ ~bootstrap /\ candidate = destKey /\ LocalKey # destKey
    \/ DHTOrdered(destKey, candidate, LocalKey)

C9_NoCandidate(destKey, bootstrap) ==
    /\ ~(/\ parent # NilPeer /\ peers[parent].started
         /\ \/ bootstrap /\ LocalKey = destKey
            \/ DHTOrdered(LocalKey, destKey, root.RootPublicKey))
    /\ \A p \in DOMAIN announcements :
          peers[p].started =>
             /\ peers[p].public # LocalKey
             /\ \A i \in DOMAIN announcements[p] :
                   ~C9_Accepted(destKey, bootstrap, announcements[p][i])
    /\ \A k \in DOMAIN table :
          (/\ table[k].Source # LocalPort /\ peers[table[k].Source].started
           /\ now - table[k].LastSeen < 3600)
          => ~C9_Accepted(destKey, bootstrap, table[k].PublicKey)

C9_NeverNone ==
    ev.op = "snek" =>
        /\ ev.best \in DOMAIN peers
        /\ (~ev.bootstrap /\ ev.rx.DestinationKey = LocalKey) => ev.best = LocalPort
        /\ C9_NoCandidate(ev.rx.DestinationKey, ev.bootstrap) => ev.best = LocalPort

\* The call fell back to the local peer although started peers with
\* announcements and a usable table entry were there to choose from.
C9_Witness ==
    /\ ev.op = "snek" /\ ev.best = LocalPort
    /\ ev.rx.DestinationKey # LocalKey
    /\ C9_NoCandidate(ev.rx.DestinationKey, ev.bootstrap)
    /\ parent # NilPeer /\ peers[parent].started
    /\ \E p \in DOMAIN announcements : peers[p].started
    /\ \E k \in DOMAIN table :
          /\ table[k].Source # LocalPort /\ peers[table[k].Source].started
          /\ now - table[k].LastSeen < 3600

(***************************************************************************)
(* C10: _nextHopsSNEK never returns a remote peer whose started flag is    *)
(* false, be it the parent, a peer with an announcement or the source of a *)
(* table entry.                                                            *)
(***************************************************************************)
C10_StartedOnly ==
    ev.op = "snek" => (ev.best = LocalPort \/ peers[ev.best].started)

\* The call returned a remote peer while the parent, which has an
\* announcement and is the source of a table entry, was not started.
C10_Witness ==
    /\ ev.op = "snek" /\ ev.best \in RemotePorts
    /\ parent # NilPeer /\ ~peers[parent].started
    /\ parent \in DOMAIN announcements
    /\ \E k \in DOMAIN table : table[k].Source = parent

(***************************************************************************)
(* C5: in a quiescent network, with timers and links scheduled fairly,     *)
(* there comes a state in which every router but the root has a valid      *)
(* ascending entry, every router but the one with the lowest key has a     *)
(* valid descending entry, and the far end of every ascending path holds   *)
(* the descending entry with the same lower key and path ID.               *)
(***************************************************************************)
C5_Paired(i) ==
    LET asc == Deref(net.snake[i].ascending)
    IN  \E j \in Nodes :
           /\ NodeKey(j) = asc.Origin
           /\ net.snake[j].descending # Nil
           /\ Deref(net.snake[j].descending).PublicKey = NodeKey(i)
           /\ Deref(net.snake[j].descending).PathID = asc.PathID

C5_Converged ==
    /\ \A i \in Nodes \ {NetRoot} :
          /\ net.snake[i].ascending # Nil
          /\ now - Deref(net.snake[i].ascending).LastSeen < 3600
          /\ C5_Paired(i)
    /\ \A i \in Nodes \ {1} :
          /\ net.snake[i].descending # Nil
          /\ now - Deref(net.snake[i].descending).LastSeen < 3600

C5_Convergence == <>C5_Converged

\* The network has converged, one of the paths running through a third
\* router.
C5_Witness ==
    /\ net # NoNet
    /\ C5_Converged
    /\ \E i \in Nodes : \E k \in DOMAIN net.snake[i].table :
          /\ net.snake[i].table[k].Source # LocalPort
          /\ net.snake[i].table[k].Destination # LocalPort

(***************************************************************************)
(* C11: a setup of the current epoch for a path (K, P) the table already   *)
(* holds removes the entry and installs nothing; neither pointer is left   *)
(* on (K, P); the teardowns for (K, P) go to the remote ends of the entry  *)
(* that was held, destination first, and then one more to the peer the     *)
(* setup came from.                                                        *)
(***************************************************************************)
TeardownsSent(out, key, pid) ==
    LET sent == SelectSeq(out, LAMBDA m : m.frame = getTeardown(key, pid))
    IN  [i \in 1..Len(sent) |-> sent[i].to]

C11_DuplicateSetup ==
    [][LET rx == ev'.rx
           k == <<rx.SourceKey, rx.PathID>>
       IN  (ev'.op = "setup" /\ ~rx.Malformed /\ ~rootDiffers(rx, root)
              /\ k \in DOMAIN table)
           => /\ table' = Remove(table, k)
              /\ ascending' # Nil =>
                    <<Deref(ascending').PublicKey, Deref(ascending').PathID>> # k
              /\ descending' # Nil =>
                    <<Deref(descending').PublicKey, Deref(descending').PathID>> # k
              /\ TeardownsSent(ev'.out, k[1], k[2])
                   = SelectSeq(<<table[k].Destination, table[k].Source>>, HasProto)
                       \o <<ev'.from>>]_vars

\* A setup met a transit entry of its own path: three teardowns went out.
C11_Witness ==
    /\ ev.op = "setup" /\ ev.ret = "duplicate"
    /\ Len(TeardownsSent(ev.out, ev.rx.SourceKey, ev.rx.PathID)) = 3

(***************************************************************************)
(* C12: a router A with a valid ascending entry of origin B that takes,    *)
(* under the current epoch, a bootstrap-ACK from C with A < C < B, the     *)
(* setup being pushed to the tree next hop, removes the old entry          *)
(* (A, oldPathID), sends the teardown for it to the old destination, and   *)
(* installs (A, ack.PathID) with origin C and the next hop as destination, *)
(* ascending being that entry.                                             *)
(***************************************************************************)
C12_CloserAscending ==
    [][LET rx == ev'.rx
           old == Deref(ascending)
           new == Deref(ascending')
           index == <<LocalKey, rx.PathID>>
       IN  (/\ ev'.op = "ack" /\ ~rx.Malformed /\ ~rootDiffers(rx, root)
            /\ ascending # Nil /\ valid(old, now)
            /\ LessThan(LocalKey, rx.SourceKey) /\ LessThan(rx.SourceKey, old.Origin)
            /\ ~nextHopFails(State, ev'.nexthop, ev'.pushOk))
           => /\ ascending' # Nil
              /\ new.PublicKey = LocalKey /\ new.PathID = rx.PathID
              /\ new.Origin = rx.SourceKey /\ new.Destination = ev'.nexthop
              /\ index \in DOMAIN table' /\ table'[index] = new
              /\ old.PathID # rx.PathID => <<LocalKey, old.PathID>> \notin DOMAIN table'
              /\ \E i \in DOMAIN ev'.out :
                    ev'.out[i] = [to |-> old.Destination,
                                  frame |-> getTeardown(LocalKey, old.PathID)]]_vars

\* The ACK of key 4 was accepted while the clock stood still, and a path of
\* another ID was torn down for it.
C12_Witness ==
    /\ ev.op = "ack" /\ ev.ret = "installed" /\ now = 0
    /\ Deref(ascending).Origin = 4
    /\ \E pid \in PathIDs \ {ev.rx.PathID} : TeardownsSent(ev.out, LocalKey, pid) # <<>>

(***************************************************************************)
(* C13: a router that has a parent, is not the root and holds a valid      *)
(* ascending entry of another epoch than the current root announcement     *)
(* sends, on its next maintenance tick, a bootstrap of the current epoch,  *)
(* and leaves the ascending entry in place.                                *)
(***************************************************************************)
C13_Stale ==
    /\ parent # NilPeer /\ root.RootPublicKey # LocalKey
    /\ ascending # Nil /\ valid(Deref(ascending), now)
    /\ rootDiffers(Deref(ascending), root)

C13_Bootstrapped(out) ==
    /\ \E i \in DOMAIN out :
          /\ out[i].frame.Type = "Bootstrap"
          /\ out[i].frame.DestinationKey = LocalKey
          /\ out[i].frame.RootPublicKey = root.RootPublicKey
          /\ out[i].frame.RootSequence = root.Sequence
    /\ ascending' = ascending
    /\ <<LocalKey, Deref(ascending).PathID>> \in DOMAIN table'
    /\ TeardownsSent(out, LocalKey, Deref(ascending).PathID) = <<>>

\* As the claim has it: whatever the state of the parent peer.
C13_EpochChangeBootstraps ==
    [][(ev'.op = "maintain" /\ C13_Stale) => C13_Bootstrapped(ev'.out)]_vars

\* C13, for a parent peer that is started.
C13_EpochChangeBootstrapsStartedParent ==
    [][(ev'.op = "maintain" /\ C13_Stale /\ Started(State, parent))
          => C13_Bootstrapped(ev'.out)]_vars

\* The tick found a valid ascending entry of an old epoch and sent a
\* bootstrap.
C13_Witness ==
    /\ ev.op = "maintain" /\ C13_Stale /\ Started(State, parent)
    /\ \E i \in DOMAIN ev.out : ev.out[i].frame.Type = "Bootstrap"

(***************************************************************************)
(* C14: a router with a valid ascending entry that takes, under the        *)
(* current epoch, a bootstrap-ACK from the router its ascending path leads *)
(* to, with another path ID than the entry's, accepts it as a refresh: it  *)
(* sends a setup for the new path ID and ascending becomes the new path.   *)
(* A started peer is at hand to take the setup.                            *)
(***************************************************************************)
C14_RefreshFromSameNeighbour ==
    [][LET rx == ev'.rx
           asc == Deref(ascending)
       IN  (/\ ev'.op = "ack" /\ ~rx.Malformed /\ ~rootDiffers(rx, root)
            /\ ascending # Nil /\ valid(asc, now)
            /\ rx.SourceKey = asc.Origin /\ rx.PathID # asc.PathID
            /\ \E p \in RemotePorts : peers[p].started)
           => /\ \E i \in DOMAIN ev'.out :
                    /\ ev'.out[i].frame.Type = "Setup"
                    /\ ev'.out[i].frame.PathID = rx.PathID
              /\ ascending' # Nil
              /\ Deref(ascending').PathID = rx.PathID
              /\ Deref(ascending').Origin = rx.SourceKey]_vars

(***************************************************************************)
(* C15: at its destination a setup of the current epoch for a path not yet *)
(* in the table is accepted exactly if its source key is below the local   *)
(* key and, while there is a valid descending entry, either has that       *)
(* entry's key with another path ID or lies strictly between that key and  *)
(* the local key.  Accepted, it has the previous descending path torn down *)
(* and descending set to a new entry from the inbound peer to the local    *)
(* peer; otherwise one rejection teardown goes to the inbound peer and the *)
(* table and both pointers stay as they are.                               *)
(***************************************************************************)
C15_Acceptable(rx) ==
    /\ rx.SourceKey < LocalKey
    /\ (descending # Nil /\ valid(Deref(descending), now))
          => \/ /\ rx.SourceKey = Deref(descending).PublicKey
                /\ rx.PathID # Deref(descending).PathID
             \/ /\ Deref(descending).PublicKey < rx.SourceKey
                /\ rx.SourceKey < LocalKey

C15_SetupAtDestination ==
    [][LET rx == ev'.rx
           index == <<rx.SourceKey, rx.PathID>>
           old == Deref(descending)
           new == Deref(descending')
       IN  (/\ ev'.op = "setup" /\ ~rx.Malformed /\ ~rootDiffers(rx, root)
            /\ index \notin DOMAIN table /\ rx.DestinationKey = LocalKey)
           => IF C15_Acceptable(rx)
              THEN /\ descending' # Nil
                   /\ new.PublicKey = rx.SourceKey /\ new.PathID = rx.PathID
                   /\ new.Source = ev'.from /\ new.Destination = LocalPort
                   /\ index \in DOMAIN table' /\ table'[index] = new
                   /\ descending # Nil =>
                         /\ <<old.PublicKey, old.PathID>> \notin DOMAIN table'
                         /\ TeardownsSent(ev'.out, old.PublicKey, old.PathID)
                              = <<old.Source>>
              ELSE /\ ev'.out = <<[to |-> ev'.from,
                                   frame |-> getTeardown(rx.SourceKey, rx.PathID)]>>
                   /\ UNCHANGED <<table, ascending, descending>>]_vars

\* A setup replaced the descending path: the teardown of the old one went
\* out.
C15_Witness ==
    /\ ev.op = "setup" /\ ev.ret = "descending"
    /\ \E i \in DOMAIN ev.out : ev.out[i].frame.Type = "Teardown"

\* A setup was turned down at its destination while a descending path was
\* held.
C15_WitnessRejected ==
    /\ ev.op = "setup" /\ ev.ret = "rejected" /\ descending # Nil

(***************************************************************************)
(* C16: at a router that is not its destination, a setup of the current    *)
(* epoch for a path not yet in the table installs the entry                *)
(* (SourceKey, PathID) exactly if the setup was pushed onto the protocol   *)
(* queue of a next hop that is present, not local and started; otherwise   *)
(* one rejection teardown goes to the inbound peer and the table stays as  *)
(* it is.                                                                  *)
(***************************************************************************)
C16_Forwarded(nexthop, pushOk) ==
    /\ nexthop \in RemotePorts
    /\ peers[nexthop].started
    /\ pushOk

C16_TransitInstalledIffForwarded ==
    [][LET rx == ev'.rx
           index == <<rx.SourceKey, rx.PathID>>
       IN  (/\ ev'.op = "setup" /\ ~rx.Malformed /\ ~rootDiffers(rx, root)
            /\ index \notin DOMAIN table /\ rx.DestinationKey # LocalKey)
           => IF C16_Forwarded(ev'.nexthop, ev'.pushOk)
              THEN /\ ev'.out = <<[to |-> ev'.nexthop, frame |-> rx]>>
                   /\ index \in DOMAIN table'
                   /\ table'[index].Source = ev'.from
                   /\ table'[index].Destination = ev'.nexthop
                   /\ \A k \in DOMAIN table : k \in DOMAIN table' /\ table'[k] = table[k]
              ELSE /\ ev'.out = <<[to |-> ev'.from,
                                   frame |-> getTeardown(rx.SourceKey, rx.PathID)]>>
                   /\ table' = table]_vars

\* The queue of a started next hop refused the setup.
C16_Witness ==
    /\ ev.op = "setup" /\ ev.ret = "unforwarded"
    /\ ev.nexthop \in RemotePorts /\ peers[ev.nexthop].started /\ ~ev.pushOk
    /\ Len(ev.out) = 1

(***************************************************************************)
(* C17: a setup whose root key or root sequence is not that of the current *)
(* root announcement installs nothing, at its destination or on the way:   *)
(* the table and both pointers stay as they are, the setup is not passed   *)
(* on, and exactly one frame is pushed, the teardown for                   *)
(* (SourceKey, PathID), onto the inbound peer.                             *)
(***************************************************************************)
C17_OtherEpochRejected ==
    [][LET rx == ev'.rx
       IN  (/\ ev'.op = "setup" /\ ~rx.Malformed
            /\ \/ rx.RootPublicKey # root.RootPublicKey
               \/ rx.RootSequence # root.Sequence)
           => /\ UNCHANGED <<table, ascending, descending>>
              /\ ev'.out = <<[to |-> ev'.from,
                              frame |-> getTeardown(rx.SourceKey, rx.PathID)]>>]_vars

\* A setup on its way to another router, with the root key of the current
\* announcement and another sequence, was turned away.
C17_Witness ==
    /\ ev.op = "setup" /\ ev.ret = "epoch"
    /\ ev.rx.DestinationKey # LocalKey
    /\ ev.rx.RootPublicKey = root.RootPublicKey
    /\ ev.nexthop \in RemotePorts /\ peers[ev.nexthop].started /\ ev.pushOk

(***************************************************************************)
(* C18: a teardown for (key, pathID) that matches no entry, or that comes  *)
(* from a remote peer that is neither the source nor the destination of    *)
(* the entry it matches (the ascending and the descending entry included), *)
(* deletes nothing, leaves ascending and descending as they are, sends no  *)
(* bootstrap and is passed on to no peer; and a teardown that has been     *)
(* handled changes nothing when it is handled once more.                   *)
(***************************************************************************)
C18_Matching(k) ==
    {table[x] : x \in DOMAIN table \cap {k}}
    \cup {Deref(p) : p \in {q \in {ascending, descending} :
                                q # Nil /\ <<Deref(q).PublicKey, Deref(q).PathID>> = k}}

C18_StrayTeardownIsNoOp ==
    [][LET rx == ev'.rx
           k == <<rx.DestinationKey, rx.PathID>>
       IN  (ev'.op = "teardown" /\ ~rx.Malformed /\ ev'.from \in RemotePorts)
           => /\ (\A e \in C18_Matching(k) :
                      ev'.from # e.Source /\ ev'.from # e.Destination)
                 => /\ UNCHANGED <<table, ascending, descending>>
                    /\ ev'.out = <<>> /\ ev'.hops = <<>>
              /\ \A t \in handleTeardown(State', ev'.from, rx) :
                    /\ t.table = table' /\ t.ascending = ascending'
                    /\ t.descending = descending'
                    /\ t.out = <<>> /\ t.hops = <<>>]_vars

\* A teardown for a path in the table came from a peer that is at neither
\* end of the entry.
C18_Witness ==
    LET k == <<ev.rx.DestinationKey, ev.rx.PathID>>
    IN  /\ ev.op = "teardown" /\ ev.ret = "done"
        /\ k \in DOMAIN table
        /\ ev.from # table[k].Source /\ ev.from # table[k].Destination
        /\ ev.hops = <<>>

(***************************************************************************)
(* C20: whenever _teardownPath takes the ascending entry away, for a       *)
(* teardown from the entry's destination or for one the router makes       *)
(* itself, such as the expiry the maintenance tick finds, _bootstrapNow    *)
(* runs in the same step of the actor, so that a router with a parent has  *)
(* sent a new bootstrap before it takes the next message; taking the       *)
(* descending entry away sends no bootstrap.                               *)
(***************************************************************************)
C20_Bootstraps(out) == \E i \in DOMAIN out : out[i].frame.Type = "Bootstrap"

\* The tick bootstraps for the sake of the ascending entry.
C20_TickWillBootstrap ==
    ascending = Nil \/ ~valid(Deref(ascending), now) \/ rootDiffers(Deref(ascending), root)

C20_DescendingAlone ==
    /\ descending # Nil /\ descending' # descending /\ ascending' = ascending
    /\ ev'.op = "maintain" => ~C20_TickWillBootstrap

\* As the claim has it: whatever the state of the parent peer.
C20_BootstrapInSameStep ==
    [][/\ (ascending # Nil /\ ascending' # ascending /\ parent # NilPeer)
             => C20_Bootstraps(ev'.out)
       /\ C20_DescendingAlone => ~C20_Bootstraps(ev'.out)]_vars

\* C20, for a parent peer that is started.
C20_BootstrapInSameStepStartedParent ==
    [][/\ (ascending # Nil /\ ascending' # ascending /\ Started(State, parent))
             => C20_Bootstraps(ev'.out)
       /\ C20_DescendingAlone => ~C20_Bootstraps(ev'.out)]_vars

\* A teardown from the destination of the ascending path cleared ascending
\* and a bootstrap went to the started parent.
C20_Witness ==
    /\ ev.op = "teardown" /\ ev.ret = "done" /\ ev.hops # <<>>
    /\ ev.rx.DestinationKey = LocalKey /\ ascending = Nil
    /\ Started(State, parent) /\ C20_Bootstraps(ev.out)

\* A teardown from the source of the descending path cleared descending and
\* nothing was sent, while the router has a started parent and no ascending
\* entry.
C20_WitnessDescending ==
    /\ ev.op = "teardown" /\ ev.ret = "done" /\ ev.hops # <<>>
    /\ ev.rx.DestinationKey < LocalKey /\ ev.hops = <<ev.from>>
    /\ Started(State, parent) /\ ascending = Nil /\ descending = Nil
    /\ ev.out = <<>>

(***************************************************************************)
(* C19: on an established path (K, P), from the ascending entry of the     *)
(* router with key K over the routers in between to the descending entry   *)
(* of the router at the upper end, a teardown one of the ends makes and    *)
(* the links deliver hop by hop removes the entry (K, P) at every router   *)
(* and clears the two pointers: once an end has let go of the path and no  *)
(* setup or teardown for it is on a link, no router holds (K, P).  A       *)
(* router in between passes the teardown on to the other side of the path  *)
(* only.                                                                   *)
(***************************************************************************)
C19_Paths == {<<NodeKey(i), pid>> : i \in Nodes, pid \in PathIDs}

C19_Holders(k) == {i \in Nodes : k \in DOMAIN net.snake[i].table}

C19_OnLink(k, type) ==
    \E l \in Links : \E n \in DOMAIN net.queue[l] :
        LET f == net.queue[l][n]
        IN  /\ f.Type = type /\ f.PathID = k[2]
            /\ (IF type = "Setup" THEN f.SourceKey ELSE f.DestinationKey) = k[1]

\* Both ends hold the path (K, P).
C19_Intact(k) ==
    \E a, b \in Nodes :
        /\ NodeKey(a) = k[1]
        /\ net.snake[a].ascending # Nil
        /\ Deref(net.snake[a].ascending).PathID = k[2]
        /\ NodeKey(b) = Deref(net.snake[a].ascending).Origin
        /\ net.snake[b].descending # Nil
        /\ Deref(net.snake[b].descending).PublicKey = k[1]
        /\ Deref(net.snake[b].descending).PathID = k[2]

C19_TornDownEverywhere ==
    \A k \in C19_Paths :
        \/ C19_Intact(k)
        \/ C19_OnLink(k, "Setup") \/ C19_OnLink(k, "Teardown")
        \/ C19_Holders(k) = {}

\* Router i, holding (K, P) between the peers src and dst, takes the
\* teardown for it from one of them: the entry is gone and the teardown is
\* on the link to the other one, the other links of i being as they were.
C19_PassedOn ==
    \A i \in Nodes, j \in Nodes :
        (/\ i # j
         /\ Len(net'.queue[<<j, i>>]) < Len(net.queue[<<j, i>>])
         /\ Head(net.queue[<<j, i>>]).Type = "Teardown")
        => LET f == Head(net.queue[<<j, i>>])
               k == <<f.DestinationKey, f.PathID>>
               e == net.snake[i].table[k]
               other == IF j = e.Source THEN e.Destination ELSE e.Source
           IN  (/\ k \in DOMAIN net.snake[i].table
                /\ ~local(e.Source) /\ ~local(e.Destination)
                /\ j \in {e.Source, e.Destination})
               => /\ k \notin DOMAIN net'.snake[i].table
                  /\ \A x \in Nodes \ {i} :
                        net'.queue[<<i, x>>] =
                           IF x = other THEN Append(net.queue[<<i, x>>], f)
                           ELSE net.queue[<<i, x>>]

C21_Established ==
    /\ ascending # Nil /\ valid(Deref(ascending), now)
    /\ Deref(ascending).RootPublicKey = root.RootPublicKey
    /\ Deref(ascending).RootSequence = root.Sequence

C21_StableUnderTicks ==
    [][C21_Established
         => /\ bootstrapNow(State) = {State}
            /\ (/\ ev'.op = "maintain"
                /\ descending # Nil => valid(Deref(descending), now))
               => /\ ev'.out = <<>>
                  /\ UNCHANGED <<table, ascending, descending>>]_vars

\* The tick found both paths valid and of the current epoch, the router
\* having a started parent.
C21_Witness ==
    /\ ev.op = "maintain" /\ ev.out = <<>>
    /\ C21_Established /\ Started(State, parent)
    /\ descending # Nil /\ valid(Deref(descending), now)

(***************************************************************************)
(* C22: for a bootstrap frame whose destination key is the local key, at   *)
(* a router with a started parent, the key _nextHopsSNEK ends with is the  *)
(* lowest key above the destination key among the root key, the keys in    *)
(* the announcements of the parent and of the started peers, and the keys  *)
(* of the valid table entries with a started, non-local source; and the    *)
(* peer returned is one through which that key is known.                   *)
(***************************************************************************)
\* The keys p gives knowledge of.
C22_KnownThrough(p) ==
    (IF p = parent THEN {root.RootPublicKey} ELSE {})
    \cup (IF p \in DOMAIN announcements
          THEN {announcements[p][n] : n \in 1..Len(announcements[p])} \cup {peers[p].public}
          ELSE {})
    \cup {table[k].PublicKey : k \in {i \in DOMAIN table :
                                         /\ table[i].Source = p
                                         /\ ~local(p)
                                         /\ valid(table[i], now)}}

C22_Candidates == UNION {C22_KnownThrough(p) : p \in {q \in DOMAIN peers : Started(State, q)}}

\* The reference computation: the minimum of the candidates above destKey.
C22_Successor(destKey) ==
    LET above == {c \in C22_Candidates : c > destKey}
    IN  CHOOSE c \in above : \A d \in above : c <= d

C22_BootstrapAtStartedParent ==
    /\ ev.op = "snek" /\ ev.bootstrap
    /\ ev.rx.DestinationKey = LocalKey
    /\ parent # NilPeer /\ Started(State, parent)

C22_LowestKeyAbove ==
    C22_BootstrapAtStartedParent
    => /\ \A b \in bestCandidates(State, LocalKey, TRUE) :
             /\ b.key = C22_Successor(LocalKey)
             /\ Started(State, b.peer)
             /\ b.key \in C22_KnownThrough(b.peer)
       /\ Started(State, ev.best)
       /\ C22_Successor(LocalKey) \in C22_KnownThrough(ev.best)

\* A key between the local key and the root key is known through a table
\* entry only, and the call returned the source of that entry, not the parent.
C22_Witness ==
    /\ C22_BootstrapAtStartedParent
    /\ C22_Successor(LocalKey) < root.RootPublicKey
    /\ ev.best # parent
    /\ C22_Successor(LocalKey) \notin
          UNION {{announcements[p][n] : n \in 1..Len(announcements[p])} : p \in DOMAIN announcements}

(***************************************************************************)
(* C23: for each destination at most one ping is in flight.  At most one   *)
(* call waits per destination, and the entry of r.pings under the          *)
(* destination is its channel; a call that reaches LoadOrStore while       *)
(* another call waits for the same destination returns the error "already  *)
(* in progress" and leaves r.pings as it is; a call that returns out of    *)
(* its wait, on the reply or on the end of its context, has removed the    *)
(* entry; and with every earlier call to the destination returned, a call  *)
(* that reaches LoadOrStore is admitted and waits.                         *)
(***************************************************************************)
C23_Holding(dst) == {c \in Callers : /\ pings.call[c].pc \in {"waiting", "returning"}
                                      /\ pings.call[c].dst = dst}

C23_Waiting(dst) == {c \in C23_Holding(dst) : pings.call[c].pc = "waiting"}

C23_Destinations == {SNEKPingKey(k) : k \in PingKeys} \cup {TreePingKey(k) : k \in PingCoords}

C23_OneEntry ==
    \A dst \in C23_Destinations :
       /\ Cardinality(C23_Holding(dst)) <= 1
       /\ \A c \in C23_Holding(dst) : dst \in DOMAIN pings.map /\ pings.map[dst] = c
       /\ dst \in DOMAIN pings.map => C23_Holding(dst) # {}

C23_Calls ==
    \A c \in Callers :
       LET call == pings.call[c]
       IN  /\ (/\ call.pc = "forwarded" /\ pings'.call[c] # call
               /\ C23_Waiting(call.dst) # {})
              => /\ pings'.call[c].pc = "done"
                 /\ pings'.call[c].ret = "already in progress"
                 /\ pings'.map = pings.map
           /\ (/\ call.pc = "forwarded" /\ pings'.call[c] # call
               /\ C23_Holding(call.dst) = {})
              => /\ pings'.call[c].pc = "waiting"
                 /\ pings'.map[call.dst] = c
           /\ (call.pc \in {"waiting", "returning"} /\ pings'.call[c].pc = "done")
              => /\ call.dst \notin DOMAIN pings'.map
                 /\ pings'.call[c].ret \in {"ok", "timed out"}

C23_OnePingInFlight == []C23_OneEntry /\ [][C23_Calls]_vars

\* One call to the destination has timed out and returned, a later one was
\* admitted and waits, and a third, made meanwhile, got the error.
C23_Witness ==
    \E dst \in C23_Destinations :
       \E c \in C23_Waiting(dst), d \in Callers, e \in Callers :
          /\ pings.call[d] = [pc |-> "done", dst |-> dst, ret |-> "already in progress"]
          /\ pings.call[e] = [pc |-> "done", dst |-> dst, ret |-> "timed out"]
          /\ pings.map[dst] = c

(***************************************************************************)
(* C24: in every reachable state the table holds at most one entry whose   *)
(* source is the local peer, and such an entry is the one ascending points *)
(* to: an accepted bootstrap-ACK leaves no other path of the router's own  *)
(* in the table.                                                           *)
(***************************************************************************)
C24_LocalPaths == {k \in DOMAIN table : local(table[k].Source)}

C25_BootstrapsSent(out) == {i \in DOMAIN out : out[i].frame.Type = "Bootstrap"}

C25_OneBootstrapPerTick ==
    [][ev'.op = "maintain" => Cardinality(C25_BootstrapsSent(ev'.out)) <= 1]_vars

(***************************************************************************)
(* C26: in every reachable state, descending being set, the table holds    *)
(* under (descending.PublicKey, descending.PathID) the entry descending    *)
(* points to, and the source of that entry is not the local peer.          *)
(***************************************************************************)
C26_DescendingInTable ==
    descending # Nil
    => LET desc == Deref(descending)
           index == <<desc.PublicKey, desc.PathID>>
       IN  /\ index \in DOMAIN table
           /\ table[index] = desc
           /\ ~local(desc.Source)

\* A teardown for another path of the descending key came from the source of
\* the descending entry and deleted nothing: descending and its entry stay.
C26_Witness ==
    /\ ev.op = "teardown" /\ descending # Nil
    /\ ev.from = Deref(descending).Source
    /\ ev.rx.DestinationKey = Deref(descending).PublicKey
    /\ ev.rx.PathID # Deref(descending).PathID
    /\ <<Deref(descending).PublicKey, Deref(descending).PathID>> \in DOMAIN table

(***************************************************************************)
(* C27: in every reachable state, ascending being set, its origin, the key *)
(* of the neighbour the path leads to, is above the local key; and a       *)
(* bootstrap-ACK accepted in place of a valid ascending entry has a source *)
(* key above the local key and below the origin of that entry.             *)
(***************************************************************************)
C27_OriginAbove == ascending # Nil => Deref(ascending).Origin > LocalKey

C27_Closer ==
    (/\ ev'.op = "ack" /\ ev'.ret = "installed"
     /\ ascending # Nil /\ valid(Deref(ascending), now))
    => /\ LocalKey < ev'.rx.SourceKey
       /\ ev'.rx.SourceKey < Deref(ascending).Origin
       /\ Deref(ascending').Origin = ev'.rx.SourceKey

=============================================================================
